---- MODULE Spec2Model ----
(***************************************************************************)
(* Model of the rasterizer of Sketch.py: drawPoint, drawLine, pointsOnLine *)
(* and drawTriangle, and of the mouse and keyboard handlers that call      *)
(* them.  Coordinates are integers.  A colour channel is a                 *)
(* Python float.  The model keeps a float as <<m, x>>, the value m / 2^x   *)
(* with m odd (or <<0, 0>>), and rounds the result of every operation to   *)
(* Precision significant bits, to nearest and ties to even, as the float   *)
(* operations of the code round to 53 bits.  The framebuffer stores what   *)
(* drawPoint stores: the channel times 255, truncated to an unsigned byte. *)
(***************************************************************************)
EXTENDS Integers, Sequences, FiniteSets, TLC

\* Largest x and y coordinate of a vertex the callers supply.
MaxCoord == 3

\* Largest x and y coordinate of a mouse click.
MaxClick == 1

\* Number of mouse clicks in a behaviour.
MaxClicks == 5

VARIABLES buff, args, doSmooth, listRet, drawRet, triRet,
          points_l, points_r, click

vars == <<buff, args, doSmooth, listRet, drawRet, triRet,
          points_l, points_r, click>>

(***************************************************************************)
(* Float arithmetic of the colour lerp.                                    *)
(***************************************************************************)
\* Significant bits of a float.
Precision == 12

\* A local variable: F applied to the value of x, with x computed once.
Let(x, F(_)) == CHOOSE r \in {F(v) : v \in {x}} : TRUE

Pow2(n) == 2 ^ n

\* m / 2^x with the factors two taken out of m
RECURSIVE Canon(_, _)
Canon(m, x) ==
    IF m = 0 THEN <<0, 0>>
    ELSE IF m % 2 = 0 THEN Canon(m \div 2, x - 1)
    ELSE <<m, x>>

\* the number of low bits m has beyond Precision bits, counted from s
RECURSIVE Drop(_, _)
Drop(m, s) == IF m < Pow2(Precision + s) THEN s ELSE Drop(m, s + 1)

\* q plus one when the remainder rem of a division by d rounds up
RoundUp(q, rem, d) ==
    IF 2 * rem > d \/ (2 * rem = d /\ q % 2 = 1) THEN q + 1 ELSE q

\* the float nearest to m / 2^x
Fl(m, x) ==
    Let(Drop(m, 0), LAMBDA s :
       IF s = 0 THEN Canon(m, x)
       ELSE Canon(RoundUp(m \div Pow2(s), m % Pow2(s), Pow2(s)), x - s))

\* the exponent x at which a * 2^x / b has Precision bits, counted from x
RECURSIVE Up(_, _, _)
Up(a, b, x) == IF a * Pow2(x) >= b * Pow2(Precision - 1) THEN x ELSE Up(a, b, x + 1)

\* a / b of two integers, 0 <= a <= b and b > 0
Div(a, b) ==
    IF a = 0 THEN <<0, 0>>
    ELSE Let(Up(a, b, 0), LAMBDA x :
            Canon(RoundUp((a * Pow2(x)) \div b, (a * Pow2(x)) % b, b), x))

One == <<1, 0>>

Zero == <<0, 0>>

\* 1 - t for a float 0 <= t <= 1
OneMinus(t) == Fl(Pow2(t[2]) - t[1], t[2])

Mul(a, b) == Fl(a[1] * b[1], a[2] + b[2])

Add(a, b) ==
    IF a[2] >= b[2]
    THEN Fl(a[1] + b[1] * Pow2(a[2] - b[2]), a[2])
    ELSE Fl(a[1] * Pow2(b[2] - a[2]) + b[1], b[2])

abs(n) == IF n < 0 THEN 0 - n ELSE n

(***************************************************************************)
(* Point and ColorType values.                                             *)
(***************************************************************************)
ColorType(r, g, b) == <<r, g, b>>

Point(coords, color) == [coords |-> coords, color |-> color]

\* "t_inv = 1 - t" and t_inv * l + t * r on each channel
Lerp(t0, l_c, r_c) ==
    Let(t0, LAMBDA t :
    Let(OneMinus(t), LAMBDA t_inv :
       ColorType(Add(Mul(t_inv, l_c[1]), Mul(t, r_c[1])),
                 Add(Mul(t_inv, l_c[2]), Mul(t, r_c[2])),
                 Add(Mul(t_inv, l_c[3]), Mul(t, r_c[3])))))

(***************************************************************************)
(* The framebuffer: buff[x, y] is a triple of unsigned bytes.              *)
(***************************************************************************)
Coords == (0 .. MaxCoord) \X (0 .. MaxCoord)

\* a float channel value times 255 stored into a uint8 array element
ToUint8(c) ==
    Let(Mul(c, <<255, 0>>), LAMBDA p :
       (IF p[2] >= 0 THEN p[1] \div Pow2(p[2]) ELSE p[1] * Pow2(0 - p[2])) % 256)

Pixel(color) == <<ToUint8(color[1]), ToUint8(color[2]), ToUint8(color[3])>>

\* a drawPoint that leaves the framebuffer as it is
drawPointNowhere(b, point) == b

drawPoint(b, point) ==
    [b EXCEPT ![point.coords] = Pixel(point.color)]

ClearedBuff == [c \in Coords |-> <<0, 0, 0>>]

\* the flat colour taken from the endpoint the iteration starts at
flatColorOfLeft(p1_c, l_c) == l_c

\* "color = p1_c # Color is chosen by first point": the flat-shading colour
\* of a line, given the colours of p1 and of the 'left' endpoint
flatColor(p1_c, l_c) == p1_c

\* the minor coordinate stepping at every iteration
stepMinorAlways(D) == TRUE

\* the minor coordinate stepping also when D is zero
stepMinorAtZero(D) == D >= 0

\* "if D > 0": the minor coordinate steps in this iteration
stepMinor(D) == D > 0

\* the decision variable after the iteration: D + 2*minor - 2*major with a
\* step of the minor coordinate, D + 2*minor without
nextD(D, d2, d2d2) == IF stepMinor(D) THEN D + d2d2 ELSE D + d2

(***************************************************************************)
(* drawLine: Bresenham writing into the framebuffer.  The result carries   *)
(* the framebuffer and, as a history, the Points handed to drawPoint.      *)
(***************************************************************************)
\* The loop state s holds the loop variables i, j and D, the framebuffer,
\* the writes so far and the values D has taken (Ds).
RECURSIVE drawLineLoopX(_, _)
drawLineLoopX(e, s) ==
    IF s.i > e.r_x THEN [buff |-> s.buff, writes |-> s.writes, Ds |-> s.Ds]
    ELSE LET t == IF e.dx = 0 THEN One ELSE Div(s.i - e.l_x, e.dx)
             color == IF e.doSmooth THEN Lerp(t, e.l_c, e.r_c)
                      ELSE flatColor(e.p1_c, e.l_c)
             point == Point(<<s.i, s.j>>, color)
         IN Let([i |-> s.i + 1,
                 j |-> IF stepMinor(s.D) THEN s.j + e.ji ELSE s.j,
                 D |-> nextD(s.D, e.dy2, e.dy2dx2),
                 Ds |-> Append(s.Ds, nextD(s.D, e.dy2, e.dy2dx2)),
                 buff |-> drawPoint(s.buff, point),
                 writes |-> Append(s.writes, point)],
                LAMBDA n : drawLineLoopX(e, n))

RECURSIVE drawLineLoopY(_, _)
drawLineLoopY(e, s) ==
    IF s.j > e.r_y THEN [buff |-> s.buff, writes |-> s.writes, Ds |-> s.Ds]
    ELSE LET t == Div(s.j - e.l_y, e.dy)
             color == IF e.doSmooth THEN Lerp(t, e.l_c, e.r_c)
                      ELSE flatColor(e.p1_c, e.l_c)
             point == Point(<<s.i, s.j>>, color)
         IN Let([j |-> s.j + 1,
                 i |-> IF stepMinor(s.D) THEN s.i + e.ii ELSE s.i,
                 D |-> nextD(s.D, e.dx2, e.dx2dy2),
                 Ds |-> Append(s.Ds, nextD(s.D, e.dx2, e.dx2dy2)),
                 buff |-> drawPoint(s.buff, point),
                 writes |-> Append(s.writes, point)],
                LAMBDA n : drawLineLoopY(e, n))

drawLine(b, p1, p2, smooth) ==
    LET p1_x == p1.coords[1]
        p1_y == p1.coords[2]
        p1_c == p1.color
        p2_x == p2.coords[1]
        p2_y == p2.coords[2]
        p2_c == p2.color
    IN IF abs(p2_y - p1_y) <= abs(p2_x - p1_x)
       THEN LET l == IF p1_x < p2_x THEN p1 ELSE p2
                r == IF p1_x < p2_x THEN p2 ELSE p1
                l_x == l.coords[1]
                l_y == l.coords[2]
                r_x == r.coords[1]
                r_y == r.coords[2]
                dx == r_x - l_x
                dy0 == r_y - l_y
                ji == IF dy0 < 0 THEN 0 - 1 ELSE 1
                dy == IF dy0 < 0 THEN dy0 * (0 - 1) ELSE dy0
                dy2 == dy * 2
                dy2dx2 == dy2 - (dx * 2)
                e == [l_x |-> l_x, r_x |-> r_x, l_c |-> l.color, r_c |-> r.color,
                      dx |-> dx, ji |-> ji, dy2 |-> dy2, dy2dx2 |-> dy2dx2,
                      doSmooth |-> smooth, p1_c |-> p1_c]
            IN Let(<<e, [i |-> l_x, j |-> l_y, D |-> dy2 - dx, Ds |-> <<dy2 - dx>>, buff |-> b,
                            writes |-> <<>>]>>,
                   LAMBDA v : drawLineLoopX(v[1], v[2]))
       ELSE LET l == IF p1_y < p2_y THEN p1 ELSE p2
                r == IF p1_y < p2_y THEN p2 ELSE p1
                l_x == l.coords[1]
                l_y == l.coords[2]
                r_x == r.coords[1]
                r_y == r.coords[2]
                dy == r_y - l_y
                dx0 == r_x - l_x
                ii == IF dx0 < 0 THEN 0 - 1 ELSE 1
                dx == IF dx0 < 0 THEN dx0 * (0 - 1) ELSE dx0
                dx2 == dx * 2
                dx2dy2 == dx2 - (dy * 2)
                e == [l_y |-> l_y, r_y |-> r_y, l_c |-> l.color, r_c |-> r.color,
                      dy |-> dy, ii |-> ii, dx2 |-> dx2, dx2dy2 |-> dx2dy2,
                      doSmooth |-> smooth, p1_c |-> p1_c]
            IN Let(<<e, [j |-> l_y, i |-> l_x, D |-> dx2 - dy, Ds |-> <<dx2 - dy>>, buff |-> b,
                            writes |-> <<>>]>>,
                   LAMBDA v : drawLineLoopY(v[1], v[2]))

(***************************************************************************)
(* pointsOnLine: the same walk collecting the Points in a list.  The       *)
(* smooth branch of the x loop divides by dx without a guard: with dx = 0  *)
(* the call raises ZeroDivisionError and returns no list.                  *)
(***************************************************************************)
RECURSIVE pointsOnLineLoopX(_, _)
pointsOnLineLoopX(e, s) ==
    IF s.i > e.r_x THEN [raised |-> FALSE, pointList |-> s.pointList, Ds |-> s.Ds]
    ELSE IF e.doSmooth /\ e.dx = 0
    THEN [raised |-> TRUE, pointList |-> <<>>, Ds |-> s.Ds]
    ELSE LET color == IF e.doSmooth
                      THEN Lerp(Div(s.i - e.l_x, e.dx), e.l_c, e.r_c)
                      ELSE flatColor(e.p1_c, e.l_c)
         IN Let([i |-> s.i + 1,
                 j |-> IF stepMinor(s.D) THEN s.j + e.ji ELSE s.j,
                 D |-> nextD(s.D, e.dy2, e.dy2dx2),
                 Ds |-> Append(s.Ds, nextD(s.D, e.dy2, e.dy2dx2)),
                 pointList |-> Append(s.pointList, Point(<<s.i, s.j>>, color))],
                LAMBDA n : pointsOnLineLoopX(e, n))

RECURSIVE pointsOnLineLoopY(_, _)
pointsOnLineLoopY(e, s) ==
    IF s.j > e.r_y THEN [raised |-> FALSE, pointList |-> s.pointList, Ds |-> s.Ds]
    ELSE IF e.doSmooth /\ e.dy = 0
    THEN [raised |-> TRUE, pointList |-> <<>>, Ds |-> s.Ds]
    ELSE LET color == IF e.doSmooth
                      THEN Lerp(Div(s.j - e.l_y, e.dy), e.l_c, e.r_c)
                      ELSE flatColor(e.p1_c, e.l_c)
         IN Let([j |-> s.j + 1,
                 i |-> IF stepMinor(s.D) THEN s.i + e.ii ELSE s.i,
                 D |-> nextD(s.D, e.dx2, e.dx2dy2),
                 Ds |-> Append(s.Ds, nextD(s.D, e.dx2, e.dx2dy2)),
                 pointList |-> Append(s.pointList, Point(<<s.i, s.j>>, color))],
                LAMBDA n : pointsOnLineLoopY(e, n))

pointsOnLine(p1, p2, smooth) ==
    LET p1_x == p1.coords[1]
        p1_y == p1.coords[2]
        p1_c == p1.color
        p2_x == p2.coords[1]
        p2_y == p2.coords[2]
        p2_c == p2.color
    IN IF abs(p2_y - p1_y) <= abs(p2_x - p1_x)
       THEN LET l == IF p1_x < p2_x THEN p1 ELSE p2
                r == IF p1_x < p2_x THEN p2 ELSE p1
                l_x == l.coords[1]
                l_y == l.coords[2]
                r_x == r.coords[1]
                r_y == r.coords[2]
                dx == r_x - l_x
                dy0 == r_y - l_y
                ji == IF dy0 < 0 THEN 0 - 1 ELSE 1
                dy == IF dy0 < 0 THEN dy0 * (0 - 1) ELSE dy0
                dy2 == dy * 2
                dy2dx2 == dy2 - (dx * 2)
                e == [l_x |-> l_x, r_x |-> r_x, l_c |-> l.color, r_c |-> r.color,
                      dx |-> dx, ji |-> ji, dy2 |-> dy2, dy2dx2 |-> dy2dx2,
                      doSmooth |-> smooth, p1_c |-> p1_c]
            IN Let(<<e, [i |-> l_x, j |-> l_y, D |-> dy2 - dx, Ds |-> <<dy2 - dx>>,
                            pointList |-> <<>>]>>,
                   LAMBDA v : pointsOnLineLoopX(v[1], v[2]))
       ELSE LET l == IF p1_y < p2_y THEN p1 ELSE p2
                r == IF p1_y < p2_y THEN p2 ELSE p1
                l_x == l.coords[1]
                l_y == l.coords[2]
                r_x == r.coords[1]
                r_y == r.coords[2]
                dy == r_y - l_y
                dx0 == r_x - l_x
                ii == IF dx0 < 0 THEN 0 - 1 ELSE 1
                dx == IF dx0 < 0 THEN dx0 * (0 - 1) ELSE dx0
                dx2 == dx * 2
                dx2dy2 == dx2 - (dy * 2)
                e == [l_y |-> l_y, r_y |-> r_y, l_c |-> l.color, r_c |-> r.color,
                      dy |-> dy, ii |-> ii, dx2 |-> dx2, dx2dy2 |-> dx2dy2,
                      doSmooth |-> smooth, p1_c |-> p1_c]
            IN Let(<<e, [j |-> l_y, i |-> l_x, D |-> dx2 - dy, Ds |-> <<dx2 - dy>>,
                            pointList |-> <<>>]>>,
                   LAMBDA v : pointsOnLineLoopY(v[1], v[2]))

(***************************************************************************)
(* drawTriangle.  st is the running state of one top-level call: the       *)
(* framebuffer and, as history, the Points written (writes), the drawPoint *)
(* and filling drawLine calls of the dual-edge walk (events), the          *)
(* drawTriangle invocations (calls) and the split searches (searches).     *)
(* The result names the exception that ended the call ("" when it          *)
(* returned) and the three vertex objects as the call leaves them.         *)
(***************************************************************************)
Y(point) == point.coords[2]

setColor(point, color) == [point EXCEPT !.color = color]

\* "if not doSmooth: q.setColor(p1.getColor())" for q = p2 and q = p3
flatShade(p1, q, smooth) == IF ~smooth THEN setColor(q, p1.color) ELSE q

\* a reverse() that leaves the list in its order
Unreversed(s) == s

Reverse(s) == [k \in 1 .. Len(s) |-> s[Len(s) + 1 - k]]

\* the test for p1 in between that only covers p2 below and p3 above
p1InBetweenUpward(p1_y, p2_y, p3_y) == p1_y > p2_y /\ p1_y < p3_y

p1InBetween(p1_y, p2_y, p3_y) ==
    (p1_y > p2_y /\ p1_y < p3_y) \/ (p1_y < p2_y /\ p1_y > p3_y)

p2InBetween(p1_y, p2_y, p3_y) ==
    (p2_y > p1_y /\ p2_y < p3_y) \/ (p2_y < p1_y /\ p2_y > p3_y)

p3InBetween(p1_y, p2_y, p3_y) ==
    (p3_y > p1_y /\ p3_y < p2_y) \/ (p3_y < p1_y /\ p3_y > p2_y)

\* "if i < (len(line) - 1): if line[i] and line[i+1] have the same y";
\* i is the list index plus one.
\* the duplicate-y test left out
sameYAsNextNever(line, i) == FALSE

\* the duplicate-y test written with <= for ==
sameYAsNextOrAbove(line, i) == i < Len(line) /\ Y(line[i]) <= Y(line[i + 1])

sameYAsNext(line, i) == i < Len(line) /\ Y(line[i]) = Y(line[i + 1])

\* The while True loop over the opposite edge; i is the list index plus one.
\* Reading line[i] past the last element raises IndexError.
RECURSIVE splitSearch(_, _, _)
splitSearch(line, i, y) ==
    IF sameYAsNext(line, i)
    THEN splitSearch(line, i + 1, y)
    ELSE IF i > Len(line) THEN [raised |-> TRUE, i |-> i]
    ELSE IF Y(line[i]) = y THEN [raised |-> FALSE, i |-> i]
    ELSE splitSearch(line, i + 1, y)

WalkEvent(kind, a, b, edge, i, j, st, depth) ==
    [kind |-> kind, a |-> a, b |-> b, edge |-> edge, i |-> i, j |-> j,
     call |-> Len(st.calls), depth |-> depth]

\* The dual-edge walk; i and j are the list indexes plus one.
RECURSIVE scanWalk(_, _, _, _, _, _)
scanWalk(st, line1, line2, i, j, depth) ==
    IF ~(i /= Len(line1) + 1 /\ j /= Len(line2) + 1)
    THEN [st EXCEPT !.ends = Append(st.ends,
                       [i |-> i, j |-> j, call |-> Len(st.calls)])]
    ELSE IF sameYAsNext(line1, i)
    THEN Let([st EXCEPT !.buff = drawPoint(st.buff, line1[i]),
                        !.writes = Append(st.writes, line1[i]),
                        !.events = Append(st.events,
                            WalkEvent("point", line1[i], line1[i], 1, i, j, st, depth))],
             LAMBDA s : scanWalk(s, line1, line2, i + 1, j, depth))
    ELSE IF sameYAsNext(line2, j)
    THEN Let([st EXCEPT !.buff = drawPoint(st.buff, line2[j]),
                        !.writes = Append(st.writes, line2[j]),
                        !.events = Append(st.events,
                            WalkEvent("point", line2[j], line2[j], 2, i, j, st, depth))],
             LAMBDA s : scanWalk(s, line1, line2, i, j + 1, depth))
    ELSE Let(drawLine(st.buff, line1[i], line2[j], TRUE),
             LAMBDA r :
                Let([st EXCEPT !.buff = r.buff,
                               !.writes = st.writes \o r.writes,
                               !.events = Append(st.events,
                                   WalkEvent("fill", line1[i], line2[j], 0, i, j, st, depth))],
                    LAMBDA s : scanWalk(s, line1, line2, i + 1, j + 1, depth)))

\* Lines 638-671: the two edges from the apex v3 and the walk between them.
scanFill(st, v1, v2, v3, smooth, depth) ==
    Let(pointsOnLine(v3, v1, smooth), LAMBDA l1 :
    Let(pointsOnLine(v3, v2, smooth), LAMBDA l2 :
       IF l1.raised \/ l2.raised
       THEN [st |-> st, raised |-> "ZeroDivisionError"]
       ELSE Let(IF Y(l1.pointList[1]) /= Y(l2.pointList[1])
                THEN Reverse(l2.pointList)
                ELSE l2.pointList,
                LAMBDA line2 :
                   Let([st EXCEPT !.edges = Append(st.edges,
                           [line1 |-> l1.pointList, line2 |-> line2, v1 |-> v1,
                            v2 |-> v2, v3 |-> v3, call |-> Len(st.calls)])],
                       LAMBDA st1 :
                          [st |-> scanWalk(st1, l1.pointList, line2, 1, 1, depth),
                           raised |-> ""]))))

\* The search of one split branch: line is the generated opposite edge and
\* mid_y the y of the vertex in between.
splitBranch(st, branch, line, mid_y) ==
    IF line.raised THEN [st |-> st, raised |-> "ZeroDivisionError", split |-> FALSE]
    ELSE Let(splitSearch(line.pointList, 1, mid_y), LAMBDA s :
         Let([st EXCEPT !.searches = Append(st.searches,
                 [branch |-> branch, line |-> line.pointList, i |-> s.i,
                  mid_y |-> mid_y, raised |-> s.raised,
                  call |-> Len(st.calls)])],
             LAMBDA st1 :
                IF s.raised
                THEN [st |-> st1, raised |-> "IndexError", split |-> FALSE]
                ELSE [st |-> st1, raised |-> "", split |-> TRUE,
                      point |-> line.pointList[s.i]]))

Ret(s, e, v) == [st |-> s, raised |-> e, p1 |-> v[1], p2 |-> v[2], p3 |-> v[3]]

\* The three split branches, by the position (1, 2, 3) of the vertices:
\* mid is the vertex in between, edge the arguments of pointsOnLine, first
\* and second the first two arguments of the two recursive calls.
SplitPlan(branch) ==
    CASE branch = 1 -> [mid |-> 1, edge |-> <<2, 3>>,
                        first |-> <<1, 2>>, second |-> <<1, 3>>]
      [] branch = 2 -> [mid |-> 2, edge |-> <<1, 3>>,
                        first |-> <<1, 2>>, second |-> <<2, 3>>]
      [] branch = 3 -> [mid |-> 3, edge |-> <<1, 2>>,
                        first |-> <<1, 3>>, second |-> <<3, 2>>]

\* the vertices v after a recursive call on v[at[1]], v[at[2]] that left
\* its first two arguments as c.p1 and c.p2
Took(v, at, c) == [v EXCEPT ![at[1]] = c.p1, ![at[2]] = c.p2]

RECURSIVE drawTriangle(_, _, _, _, _, _)
\* Lines 590-636: v holds p1, p2, p3; the opposite edge is generated and
\* searched, then the two sub-triangles are drawn, each with the split
\* point as third vertex.
splitTriangle(st, branch, v, smooth, depth) ==
    Let(SplitPlan(branch), LAMBDA pl :
    Let(splitBranch(st, branch,
                    pointsOnLine(v[pl.edge[1]], v[pl.edge[2]], TRUE),
                    Y(v[pl.mid])), LAMBDA b :
       IF ~b.split THEN Ret(b.st, b.raised, v)
       ELSE Let(drawTriangle(b.st, v[pl.first[1]], v[pl.first[2]], b.point,
                             smooth, depth + 1), LAMBDA c1 :
            Let(Took(v, pl.first, c1), LAMBDA v1 :
               IF c1.raised /= "" THEN Ret(c1.st, c1.raised, v1)
               ELSE Let(drawTriangle(c1.st, v1[pl.second[1]], v1[pl.second[2]],
                                     c1.p3, smooth, depth + 1), LAMBDA c2 :
                        Ret(c2.st, c2.raised, Took(v1, pl.second, c2)))))))

\* The body of drawTriangle after the flat-shading step: st holds this
\* invocation, p2 and p3 carry the colours the step left them.
drawTriangleBody(st, p1, p2, p3, smooth, depth) ==
    LET p1_y == Y(p1)
        p2_y == Y(p2)
        p3_y == Y(p3)
        \* v1, v2, v3 when two vertices share a y
        flat == IF p1_y = p2_y THEN <<p1, p2, p3>>
                ELSE IF p2_y = p3_y THEN <<p2, p3, p1>>
                ELSE IF p3_y = p1_y THEN <<p3, p1, p2>>
                ELSE <<>>
        branch == IF p1InBetween(p1_y, p2_y, p3_y) THEN 1
                  ELSE IF p2InBetween(p1_y, p2_y, p3_y) THEN 2
                  ELSE IF p3InBetween(p1_y, p2_y, p3_y) THEN 3
                  ELSE 0
    IN IF flat /= <<>>
       THEN Let(scanFill(st, flat[1], flat[2], flat[3], smooth, depth),
                LAMBDA f : Ret(f.st, f.raised, <<p1, p2, p3>>))
       ELSE IF branch /= 0
       THEN splitTriangle(st, branch, <<p1, p2, p3>>, smooth, depth)
       ELSE Ret(st, "UnboundLocalError", <<p1, p2, p3>>)

drawTriangle(st0, p1, q2, q3, smooth, depth) ==
    Let(flatShade(p1, q2, smooth), LAMBDA p2 :
    Let(flatShade(p1, q3, smooth), LAMBDA p3 :
    Let([st0 EXCEPT !.calls = Append(st0.calls,
            [depth |-> depth, p1 |-> p1, p2 |-> p2, p3 |-> p3])],
        LAMBDA st : drawTriangleBody(st, p1, p2, p3, smooth, depth))))

(***************************************************************************)
(* The callers.  A behaviour takes vertex Points with their colours, a     *)
(* shading mode and a framebuffer, and applies the operations to them.     *)
(***************************************************************************)
Red == ColorType(One, Zero, Zero)

Green == ColorType(Zero, One, Zero)

Blue == ColorType(Zero, Zero, One)

\* a colour with a channel that is neither 0 nor 1, as ColorType(1, 97. / 255, 0)
\* of the test cases or a random colour: 249 / 256
Orange == ColorType(One, <<249, 8>>, Zero)

\* the click colour without randomColor, two different colours, and twice
\* a colour with a channel between 0 and 1
Colorings == {<<Red, Red>>, <<Red, Green>>, <<Orange, Orange>>}

PaintedBuff == [c \in Coords |-> Pixel(Red)]

NoList == [called |-> FALSE, raised |-> FALSE, pointList |-> <<>>, Ds |-> <<>>]

NoDraw == [called |-> FALSE, writes |-> <<>>, before |-> ClearedBuff,
           Ds |-> <<>>]

EmptyRun == [buff |-> ClearedBuff, writes |-> <<>>, events |-> <<>>,
             calls |-> <<>>, searches |-> <<>>, edges |-> <<>>, ends |-> <<>>]

NoTri == [called |-> FALSE, raised |-> "", st |-> EmptyRun,
          before |-> ClearedBuff, given |-> <<>>]

\* the history of the latest mouse click: the numbers of left and right
\* clicks so far, the button, what the handler drew ("", "line" or
\* "triangle") from which Points, the exception that ended it, and the two
\* point lists as they were before it
NoClick == [n_l |-> 0, n_r |-> 0, button |-> "", drew |-> "", from |-> <<>>,
            raised |-> "", before_l |-> <<>>, before_r |-> <<>>]

\* ---- line callers -------------------------------------------------------
InitLine ==
    /\ \E c1 \in Coords, c2 \in Coords, col \in Colorings :
          args = <<Point(c1, col[1]), Point(c2, col[2])>>
    /\ doSmooth \in BOOLEAN
    /\ buff \in {ClearedBuff, PaintedBuff}
    /\ listRet = NoList
    /\ drawRet = NoDraw
    /\ triRet = NoTri
    /\ points_l = <<>> /\ points_r = <<>> /\ click = NoClick

CallPointsOnLine ==
    /\ Len(args) = 2
    /\ ~listRet.called
    /\ \E r \in {pointsOnLine(args[1], args[2], doSmooth)} :
          listRet' = [called |-> TRUE, raised |-> r.raised,
                      pointList |-> r.pointList, Ds |-> r.Ds]
    /\ UNCHANGED <<buff, args, doSmooth, drawRet, triRet, points_l, points_r, click>>

CallDrawLine ==
    /\ Len(args) = 2
    /\ ~drawRet.called
    /\ \E r \in {drawLine(buff, args[1], args[2], doSmooth)} :
          /\ buff' = r.buff
          /\ drawRet' = [called |-> TRUE, writes |-> r.writes, before |-> buff,
                        Ds |-> r.Ds]
    /\ UNCHANGED <<args, doSmooth, listRet, triRet, points_l, points_r, click>>

NextLine == CallPointsOnLine \/ CallDrawLine

Spec == InitLine /\ [][NextLine]_vars

\* ---- triangle caller ----------------------------------------------------
InitTri ==
    /\ \E c1 \in Coords, c2 \in Coords, c3 \in Coords :
          args = <<Point(c1, Orange), Point(c2, Green), Point(c3, Blue)>>
    /\ doSmooth \in BOOLEAN
    /\ buff = ClearedBuff
    /\ listRet = NoList
    /\ drawRet = NoDraw
    /\ triRet = NoTri
    /\ points_l = <<>> /\ points_r = <<>> /\ click = NoClick

CallDrawTriangle ==
    /\ Len(args) = 3
    /\ ~triRet.called
    /\ \E r \in {drawTriangle([EmptyRun EXCEPT !.buff = buff],
                              args[1], args[2], args[3], doSmooth, 0)} :
          /\ buff' = r.st.buff
          /\ args' = <<r.p1, r.p2, r.p3>>
          /\ triRet' = [called |-> TRUE, raised |-> r.raised, st |-> r.st,
                        before |-> buff, given |-> args]
    /\ UNCHANGED <<doSmooth, listRet, drawRet, points_l, points_r, click>>

NextTri == CallDrawTriangle

SpecTri == InitTri /\ [][NextTri]_vars

\* ---- a caller drawing the line of the first two vertices, then the
\* ---- triangle, into the same framebuffer
PaintLine ==
    /\ Len(args) = 3
    /\ ~drawRet.called
    /\ \E r \in {drawLine(buff, args[1], args[2], doSmooth)} :
          /\ buff' = r.buff
          /\ drawRet' = [called |-> TRUE, writes |-> r.writes, before |-> buff,
                        Ds |-> r.Ds]
    /\ UNCHANGED <<args, doSmooth, listRet, triRet, points_l, points_r, click>>

PaintTriangle == drawRet.called /\ CallDrawTriangle

NextPaint == PaintLine \/ PaintTriangle

SpecPaint == InitTri /\ [][NextPaint]_vars

\* ---- mouse and keyboard handlers ----------------------------------------
ClickCoords == (0 .. MaxClick) \X (0 .. MaxClick)

\* __addPoint2Pointlist with randomColor off
addPoint2Pointlist(pointlist, x, y) ==
    Append(pointlist, Point(<<x, y>>, ColorType(One, Zero, Zero)))

Clicked(button, drew, from, raised) ==
    [n_l |-> IF button = "L" THEN click.n_l + 1 ELSE click.n_l,
     n_r |-> IF button = "R" THEN click.n_r + 1 ELSE click.n_r,
     button |-> button, drew |-> drew, from |-> from, raised |-> raised,
     before_l |-> points_l, before_r |-> points_r]

\* the list with its last three Points as a drawTriangle call left them
LastThree(list, r) ==
    [list EXCEPT ![Len(list) - 2] = r.p1, ![Len(list) - 1] = r.p2,
                 ![Len(list)] = r.p3]

InitClicks ==
    /\ buff = ClearedBuff
    /\ doSmooth = FALSE
    /\ args = <<>>
    /\ listRet = NoList
    /\ drawRet = NoDraw
    /\ triRet = NoTri
    /\ points_l = <<>> /\ points_r = <<>> /\ click = NoClick

Interrupt_MouseL(x, y) ==
    /\ click.n_l + click.n_r < MaxClicks
    /\ \E l \in {addPoint2Pointlist(points_l, x, y)} :
          IF Len(l) % 2 = 1
          THEN /\ points_l' = l
               /\ click' = Clicked("L", "", <<>>, "")
               /\ UNCHANGED buff
          ELSE \E r \in {drawLine(buff, l[Len(l)], l[Len(l) - 1], doSmooth)} :
                  /\ buff' = r.buff
                  /\ points_l' = <<>>
                  /\ click' = Clicked("L", "line", <<l[Len(l)], l[Len(l) - 1]>>, "")
    /\ UNCHANGED <<args, doSmooth, listRet, drawRet, triRet, points_r>>

\* An exception of drawTriangle ends the handler before points_r.clear().
Interrupt_MouseR(x, y) ==
    /\ click.n_l + click.n_r < MaxClicks
    /\ \E l \in {addPoint2Pointlist(points_r, x, y)} :
          IF Len(l) % 3 = 2
          THEN \E r \in {drawLine(buff, l[Len(l) - 1], l[Len(l)], doSmooth)} :
                  /\ buff' = r.buff
                  /\ points_r' = l
                  /\ click' = Clicked("R", "line", <<l[Len(l) - 1], l[Len(l)]>>, "")
          ELSE IF Len(l) % 3 = 0 /\ Len(l) > 0
          THEN \E r \in {drawTriangle([EmptyRun EXCEPT !.buff = buff],
                                      l[Len(l) - 2], l[Len(l) - 1], l[Len(l)],
                                      doSmooth, 0)} :
                  /\ buff' = r.st.buff
                  /\ points_r' = IF r.raised = "" THEN <<>> ELSE LastThree(l, r)
                  /\ click' = Clicked("R", "triangle",
                                      <<l[Len(l) - 2], l[Len(l) - 1], l[Len(l)]>>,
                                      r.raised)
          ELSE /\ points_r' = l
               /\ click' = Clicked("R", "", <<>>, "")
               /\ UNCHANGED buff
    /\ UNCHANGED <<args, doSmooth, listRet, drawRet, triRet, points_l>>

\* Interrupt_Keyboard with the key s or S
Interrupt_KeyboardS ==
    /\ doSmooth' = ~doSmooth
    /\ UNCHANGED <<buff, args, listRet, drawRet, triRet, points_l, points_r, click>>

NextClicks ==
    \/ \E c \in ClickCoords : Interrupt_MouseL(c[1], c[2])
    \/ \E c \in ClickCoords : Interrupt_MouseR(c[1], c[2])
    \/ Interrupt_KeyboardS

SpecClicks == InitClicks /\ [][NextClicks]_vars

(***************************************************************************)
(* Properties of the line operations (specification Spec).                 *)
(***************************************************************************)
XY(point, axis) == point.coords[axis]

\* the dominant axis of the segment args[1], args[2]: 1 is x, 2 is y
Dominant ==
    IF abs(XY(args[2], 2) - XY(args[1], 2)) <= abs(XY(args[2], 1) - XY(args[1], 1))
    THEN 1 ELSE 2

Minor == 3 - Dominant

MajorDelta == abs(XY(args[2], Dominant) - XY(args[1], Dominant))

LowEnd ==
    IF XY(args[1], Dominant) <= XY(args[2], Dominant) THEN args[1] ELSE args[2]

HighEnd ==
    IF XY(args[1], Dominant) <= XY(args[2], Dominant) THEN args[2] ELSE args[1]

EndsEmitted(seq) ==
    /\ Len(seq) >= 1
    /\ seq[1].coords = LowEnd.coords
    /\ seq[Len(seq)].coords = HighEnd.coords

\* C1: for every pair of endpoints and either shading mode the sequence of
\* pointsOnLine, and the pixels drawLine writes, start at the endpoint with
\* the lower dominant-axis value and end at the other endpoint.
C1_EndpointsEmitted ==
    /\ listRet.called => (~listRet.raised /\ EndsEmitted(listRet.pointList))
    /\ drawRet.called => EndsEmitted(drawRet.writes)

StepsByOne(seq) ==
    /\ Len(seq) = MajorDelta + 1
    /\ \A k \in 1 .. Len(seq) - 1 :
          XY(seq[k + 1], Dominant) = XY(seq[k], Dominant) + 1
    /\ \E dir \in {0 - 1, 1} :
          \A k \in 1 .. Len(seq) - 1 :
             XY(seq[k + 1], Minor) - XY(seq[k], Minor) \in {0, dir}

\* C2: for every segment the generated sequence has max(|dx|,|dy|)+1 points,
\* the dominant coordinate grows by exactly 1 between consecutive points and
\* the minor coordinate changes by 0 or by one unit in one fixed direction.
C2_DominantStepsByOne ==
    listRet.called => (~listRet.raised /\ StepsByOne(listRet.pointList))

WrittenAt(writes, c) == {k \in 1 .. Len(writes) : writes[k].coords = c}

\* C3: drawLine writes exactly the Points pointsOnLine returns for the same
\* arguments (coordinates, order, colours), also for p1 = p2, and leaves
\* every other framebuffer pixel unchanged.
C3_DrawLineWritesPointsOnLine ==
    (listRet.called /\ drawRet.called) =>
       /\ ~listRet.raised
       /\ drawRet.writes = listRet.pointList
       /\ \A c \in Coords :
             IF WrittenAt(drawRet.writes, c) = {}
             THEN buff[c] = drawRet.before[c]
             ELSE \E k \in WrittenAt(drawRet.writes, c) :
                     buff[c] = Pixel(listRet.pointList[k].color)

\* C6: pointsOnLine with both endpoints at one coordinate returns a list of
\* exactly one Point at that coordinate, in flat and in smooth mode.
C6_SamePointGivesOnePoint ==
    (listRet.called /\ args[1].coords = args[2].coords) =>
       /\ ~listRet.raised
       /\ Len(listRet.pointList) = 1
       /\ listRet.pointList[1].coords = args[1].coords

Reordered ==
    IF Dominant = 1 THEN ~(XY(args[1], 1) < XY(args[2], 1))
    ELSE ~(XY(args[1], 2) < XY(args[2], 2))

AllOfColor(seq, color) == \A k \in 1 .. Len(seq) : seq[k].color = color

\* C11: with flat shading every point pointsOnLine returns and every point
\* drawLine writes for (p1, p2) has the colour of p1, also when p1 is the
\* right or upper endpoint and the iteration starts at p2.
C11_FlatLineUsesFirstColor ==
    ~doSmooth =>
       /\ listRet.called =>
             (~listRet.raised /\ AllOfColor(listRet.pointList, args[1].color))
       /\ drawRet.called =>
             /\ AllOfColor(drawRet.writes, args[1].color)
             /\ \A k \in 1 .. Len(drawRet.writes) :
                   buff[drawRet.writes[k].coords] = Pixel(args[1].color)

C11_Witness ==
    /\ ~doSmooth /\ listRet.called /\ drawRet.called
    /\ Reordered
    /\ args[1].color /= args[2].color
    /\ Len(listRet.pointList) > 2 /\ Len(drawRet.writes) > 2

\* C12: drawLine with p1 and p2 at one coordinate, in flat and in smooth
\* mode, writes exactly one framebuffer pixel, at that coordinate, and
\* every other pixel keeps its value.
C12_SamePointDrawsOnePixel ==
    (drawRet.called /\ args[1].coords = args[2].coords) =>
       /\ Len(drawRet.writes) = 1
       /\ drawRet.writes[1].coords = args[1].coords
       /\ buff[args[1].coords] = Pixel(drawRet.writes[1].color)
       /\ drawRet.writes[1].color \in {args[1].color, args[2].color}
       /\ \A c \in Coords \ {args[1].coords} : buff[c] = drawRet.before[c]

C12_Witness ==
    /\ drawRet.called /\ args[1].coords = args[2].coords
    /\ doSmooth
    /\ buff /= drawRet.before

\* a <= b for two floats
Leq(a, b) ==
    IF a[2] >= b[2] THEN a[1] <= b[1] * Pow2(a[2] - b[2])
    ELSE a[1] * Pow2(b[2] - a[2]) <= b[1]

Between(c, l, r) ==
    /\ Leq(l, c) \/ Leq(r, c)
    /\ Leq(c, l) \/ Leq(c, r)

\* the k-th point of seq has the colour of weight (k - 1) / MajorDelta
\* between the 'left' and the 'right' endpoint, each channel within the two
\* endpoint values, the first and the last point the endpoint colours
Interpolated(seq) ==
    /\ Len(seq) = MajorDelta + 1
    /\ \A k \in 1 .. Len(seq) :
          /\ seq[k].color = Lerp(Div(k - 1, MajorDelta), LowEnd.color, HighEnd.color)
          /\ \A ch \in 1 .. 3 :
                Between(seq[k].color[ch], LowEnd.color[ch], HighEnd.color[ch])
    /\ seq[1].color = LowEnd.color
    /\ seq[Len(seq)].color = HighEnd.color

\* C13: in smooth mode, for every segment of non-zero length, the k-th
\* emitted point has the colour of weight k / major_delta, every channel of
\* every emitted point lies between the two endpoint values of that channel,
\* the first point has the 'left' and the last the 'right' endpoint's colour.
C13_SmoothColorsWithinEndpoints ==
    (doSmooth /\ args[1].coords /= args[2].coords) =>
       /\ listRet.called => (~listRet.raised /\ Interpolated(listRet.pointList))
       /\ drawRet.called => Interpolated(drawRet.writes)

\* the minor delta of the segment, the sign of the minor direction from the
\* 'left' endpoint, and the offset of a Point from it in that direction
MinorDelta == abs(XY(HighEnd, Minor) - XY(LowEnd, Minor))

MinorSign == IF XY(HighEnd, Minor) < XY(LowEnd, Minor) THEN 0 - 1 ELSE 1

Offset(point) == MinorSign * (XY(point, Minor) - XY(LowEnd, Minor))

NearestToLine(seq) ==
    \A k \in 0 .. Len(seq) - 1 :
       abs(2 * MajorDelta * Offset(seq[k + 1]) - 2 * k * MinorDelta) <= MajorDelta

DecisionInRange(Ds) ==
    /\ Len(Ds) >= 1
    /\ Ds[1] = 2 * MinorDelta - MajorDelta
    /\ \A n \in 1 .. Len(Ds) :
          2 * MinorDelta - 2 * MajorDelta < Ds[n] /\ Ds[n] <= 2 * MinorDelta

\* C19: for a segment with major delta M > 0 and minor delta m <= M the k-th
\* point of pointsOnLine and of drawLine has a minor-axis offset o_k from
\* the 'left' endpoint with |2*M*o_k - 2*k*m| <= M, and the decision
\* variable D starts at 2*m - M and stays within 2*m - 2*M < D <= 2*m.
C19_NearestPointAndDecisionRange ==
    MajorDelta > 0 =>
       /\ listRet.called /\ ~listRet.raised =>
             NearestToLine(listRet.pointList) /\ DecisionInRange(listRet.Ds)
       /\ drawRet.called =>
             NearestToLine(drawRet.writes) /\ DecisionInRange(drawRet.Ds)

\* both operations ran on a sloped segment whose decision variable reached
\* zero and whose minor coordinate decreases
C19_Witness ==
    /\ listRet.called /\ ~listRet.raised /\ drawRet.called
    /\ MajorDelta >= 2 /\ MinorDelta > 0 /\ MinorDelta < MajorDelta
    /\ MinorSign = 0 - 1
    /\ Len(listRet.Ds) = MajorDelta + 2 /\ Len(drawRet.Ds) = MajorDelta + 2
    /\ \E n \in 1 .. Len(drawRet.Ds) : drawRet.Ds[n] = 0
    /\ \E n \in 1 .. Len(drawRet.writes) : Offset(drawRet.writes[n]) > 0

(***************************************************************************)
(* Properties of drawTriangle (specification SpecTri).                     *)
(***************************************************************************)
given == triRet.given

run == triRet.st

Positions == {given[k].coords : k \in 1 .. 3}

WrittenCoords == {run.writes[k].coords : k \in 1 .. Len(run.writes)}

DistinctYs ==
    /\ Y(given[1]) /= Y(given[2])
    /\ Y(given[2]) /= Y(given[3])
    /\ Y(given[1]) /= Y(given[3])

\* C4: with flat shading every pixel drawTriangle touches gets the colour of
\* the first vertex p1, through the recursive calls of a split triangle too
\* (the Point drawn has p1's colour and the pixel stores p1's bytes).
C4_FlatUsesFirstColor ==
    (triRet.called /\ ~doSmooth) =>
       /\ \A k \in 1 .. Len(run.writes) : run.writes[k].color = given[1].color
       /\ \A c \in WrittenCoords : buff[c] = Pixel(given[1].color)

\* the pixels of the segment between the two distinct vertex positions
SegmentCoords ==
    LET a == CHOOSE c \in Positions : TRUE
        b == CHOOSE c \in Positions : c /= a
        l == pointsOnLine(Point(a, Red), Point(b, Red), FALSE).pointList
    IN {l[k].coords : k \in 1 .. Len(l)}

\* C5: drawTriangle with two or three vertices at one coordinate, in flat
\* and in smooth mode, returns without an error and draws only the line
\* between the two positions, or the single point.
C5_CoincidentVerticesDegrade ==
    (triRet.called /\ Cardinality(Positions) < 3) =>
       /\ triRet.raised = ""
       /\ IF Cardinality(Positions) = 1
          THEN WrittenCoords = Positions
          ELSE WrittenCoords = SegmentCoords

Fills == {k \in 1 .. Len(run.events) : run.events[k].kind = "fill"}

FillsAt(y) == {k \in Fills : Y(run.events[k].a) = y}

FillsOfCallAt(c, y) == {k \in FillsAt(y) : run.events[k].call = c}

DupY(line, k) == k < Len(line) /\ line[k].coords[2] = line[k + 1].coords[2]

\* Edge points with the y of their successor are plotted by drawPoint, once,
\* and no filling line starts or ends at such a list element.
DupPointsPlotted ==
    \A n \in 1 .. Len(run.edges) :
       LET ed == run.edges[n]
           ev == {k \in 1 .. Len(run.events) : run.events[k].call = ed.call}
       IN /\ \A k \in 1 .. Len(ed.line1) : DupY(ed.line1, k) =>
                Cardinality({m \in ev : /\ run.events[m].kind = "point"
                                        /\ run.events[m].edge = 1
                                        /\ run.events[m].i = k
                                        /\ run.events[m].a = ed.line1[k]}) = 1
          /\ \A k \in 1 .. Len(ed.line2) : DupY(ed.line2, k) =>
                Cardinality({m \in ev : /\ run.events[m].kind = "point"
                                        /\ run.events[m].edge = 2
                                        /\ run.events[m].j = k
                                        /\ run.events[m].a = ed.line2[k]}) = 1
          /\ \A m \in ev : run.events[m].kind = "fill" =>
                /\ run.events[m].a = ed.line1[run.events[m].i]
                /\ run.events[m].b = ed.line2[run.events[m].j]
                /\ ~DupY(ed.line1, run.events[m].i)
                /\ ~DupY(ed.line2, run.events[m].j)

\* C7 as stated: during one drawTriangle call, its recursive sub-calls
\* included, at most one filling line is drawn for each y-level, and edge
\* points sharing a y with their successor are plotted individually.
C7_OneFillLinePerLevel ==
    triRet.called =>
       /\ \A y \in 0 .. MaxCoord : Cardinality(FillsAt(y)) <= 1
       /\ DupPointsPlotted

\* C7 amended: each dual-edge walk (one drawTriangle invocation) draws at
\* most one filling line per y-level; the two sub-calls of a split triangle
\* draw one filling line each on the split y-level, so that level gets two
\* and every other level at most one; edge points sharing a y with their
\* successor are plotted individually and never end a filling line.
C7_OneFillLinePerLevelPerWalk ==
    triRet.called =>
       /\ \A c \in 1 .. Len(run.calls) : \A y \in 0 .. MaxCoord :
             Cardinality(FillsOfCallAt(c, y)) <= 1
       /\ \A y \in 0 .. MaxCoord :
             IF \E n \in 1 .. Len(run.searches) :
                   ~run.searches[n].raised /\ run.searches[n].mid_y = y
             THEN Cardinality(FillsAt(y)) = 2
             ELSE Cardinality(FillsAt(y)) <= 1
       /\ DupPointsPlotted

C7_Witness ==
    /\ triRet.called /\ triRet.raised = ""
    /\ Len(run.calls) = 3
    /\ \E y \in 0 .. MaxCoord : Cardinality(FillsAt(y)) = 2
    /\ \E k \in 1 .. Len(run.events) : run.events[k].kind = "point"
    /\ \E y \in 0 .. MaxCoord : Cardinality(FillsAt(y)) = 1

MinY == CHOOSE y \in {Y(given[k]) : k \in 1 .. 3} :
           \A k \in 1 .. 3 : y <= Y(given[k])

MaxY == CHOOSE y \in {Y(given[k]) : k \in 1 .. 3} :
           \A k \in 1 .. 3 : y >= Y(given[k])

XsAt(y) == {c[1] : c \in {w \in WrittenCoords : w[2] = y}}

Contiguous(xs) ==
    \A x \in 0 .. MaxCoord :
       (\E a \in xs : a <= x) /\ (\E b \in xs : x <= b) => x \in xs

\* C8: for every triangle whose vertices are not all at one coordinate,
\* after drawTriangle every y-level from the smallest to the largest vertex
\* y has a pixel written and the written pixels of a level have no gap.
C8_EveryLevelFilledWithoutGap ==
    (triRet.called /\ Cardinality(Positions) > 1) =>
       \A y \in MinY .. MaxY : XsAt(y) /= {} /\ Contiguous(XsAt(y))

MidY == CHOOSE y \in {Y(given[k]) : k \in 1 .. 3} : y /= MinY /\ y /= MaxY

SharesY(c) == Y(c.p1) = Y(c.p2) \/ Y(c.p2) = Y(c.p3) \/ Y(c.p3) = Y(c.p1)

\* C9: for pairwise distinct vertex y-values the split point is a point of
\* the generated edge between the lowest and the highest vertex, its y is
\* the middle vertex's y, both recursive calls get a triangle with two
\* vertices sharing a y, and the recursion is one level deep.
C9_SplitGivesFlatSubTriangles ==
    (triRet.called /\ DistinctYs) =>
       /\ triRet.raised = ""
       /\ Len(run.searches) = 1
       /\ LET se == run.searches[1]
              sp == se.line[se.i]
          IN /\ se.i \in 1 .. Len(se.line)
             /\ {se.line[1].coords, se.line[Len(se.line)].coords} =
                   {given[k].coords : k \in {n \in 1 .. 3 : Y(given[n]) /= MidY}}
             /\ Y(sp) = MidY
             /\ Len(run.calls) = 3
             /\ \A n \in 2 .. 3 :
                   /\ run.calls[n].depth = 1
                   /\ SharesY(run.calls[n])
                   /\ run.calls[n].p3.coords = sp.coords
                   /\ \E k \in 1 .. 3 : /\ Y(given[k]) = MidY
                                        /\ given[k].coords \in
                                              {run.calls[n].p1.coords,
                                               run.calls[n].p2.coords}
       /\ \A n \in 1 .. Len(run.calls) : run.calls[n].depth <= 1

C9_Witness ==
    /\ triRet.called /\ DistinctYs /\ triRet.raised = ""
    /\ Len(run.calls) = 3
    /\ run.searches[1].i > 1
    /\ Len(run.events) > 2

InBetweenCount ==
    LET a == Y(given[1])
        b == Y(given[2])
        c == Y(given[3])
    IN (IF p1InBetween(a, b, c) THEN 1 ELSE 0)
       + (IF p2InBetween(a, b, c) THEN 1 ELSE 0)
       + (IF p3InBetween(a, b, c) THEN 1 ELSE 0)

\* C10: for pairwise distinct vertex y-values the split search stops at a
\* point with the middle vertex's y before its index passes the end of the
\* list (no IndexError, no endless loop), and exactly one of the three
\* in-between conditions holds.
C10_SplitSearchFindsMiddle ==
    (triRet.called /\ DistinctYs) =>
       /\ triRet.raised /= "IndexError"
       /\ triRet.raised /= "UnboundLocalError"
       /\ Len(run.searches) = 1
       /\ ~run.searches[1].raised
       /\ run.searches[1].i <= Len(run.searches[1].line)
       /\ Y(run.searches[1].line[run.searches[1].i]) = run.searches[1].mid_y
       /\ run.searches[1].mid_y = MidY
       /\ InBetweenCount = 1

C10_Witness ==
    /\ triRet.called /\ DistinctYs
    /\ Len(run.searches) = 1
    /\ ~run.searches[1].raised
    /\ run.searches[1].i > 2
    /\ run.searches[1].i < Len(run.searches[1].line)

\* C14: a drawTriangle call, in flat and in smooth mode, leaves the
\* coordinates and the colour of the three vertex Points of the caller as
\* they were before the call.
C14_VerticesUnchanged ==
    triRet.called => args = given

\* the y-values of line go from the level from to the level to, never back
Monotone(line, from, to) ==
    /\ Len(line) >= 1
    /\ Y(line[1]) = from
    /\ Y(line[Len(line)]) = to
    /\ \A k \in 1 .. Len(line) - 1 :
          IF from <= to THEN Y(line[k]) <= Y(line[k + 1])
          ELSE Y(line[k]) >= Y(line[k + 1])

\* C15 as stated: in every dual-edge walk, after the conditional reversal,
\* line1 and line2 both start at the y of the apex v3 and their y-values
\* proceed monotonically to the y of the horizontal pair.
C15_EdgesStartAtApex ==
    triRet.called =>
       \A n \in 1 .. Len(run.edges) :
          LET ed == run.edges[n]
          IN /\ Monotone(ed.line1, Y(ed.v3), Y(ed.v1))
             /\ Monotone(ed.line2, Y(ed.v3), Y(ed.v2))

\* C15 amended: after the conditional reversal line1 and line2 start at one
\* common y-level and end at one common y-level; the two levels are the y of
\* the apex v3 and the y of the horizontal pair, in the order pointsOnLine
\* gave line1 (the apex first only when it is the 'left' endpoint of the edge
\* v3-v1), and the y-values of both lists proceed monotonically from the
\* first level to the second.
C15_EdgesStartAtCommonLevel ==
    triRet.called =>
       \A n \in 1 .. Len(run.edges) :
          LET ed == run.edges[n]
              first == Y(ed.line1[1])
              last == Y(ed.line1[Len(ed.line1)])
          IN /\ {first, last} = {Y(ed.v3), Y(ed.v1)}
             /\ Y(ed.v1) = Y(ed.v2)
             /\ Monotone(ed.line1, first, last)
             /\ Monotone(ed.line2, first, last)
             /\ {ed.line1[1].coords, ed.line1[Len(ed.line1)].coords} =
                   {ed.v3.coords, ed.v1.coords}
             /\ {ed.line2[1].coords, ed.line2[Len(ed.line2)].coords} =
                   {ed.v3.coords, ed.v2.coords}

C15_Witness ==
    /\ triRet.called /\ triRet.raised = ""
    /\ \E n \in 1 .. Len(run.edges) :
          LET ed == run.edges[n]
          IN /\ Y(ed.v3) /= Y(ed.v1)
             /\ Y(ed.line1[1]) = Y(ed.v1)
             /\ ed.line2[1].coords = ed.v2.coords
             /\ Len(ed.line1) > 2 /\ Len(ed.line2) > 2

\* the events of the walk over the n-th recorded pair of edges
WalkEvents(n) ==
    {k \in 1 .. Len(run.events) : run.events[k].call = run.edges[n].call}

\* the k-th point of edge list number edge was written by the walk n, by
\* drawPoint or as the endpoint of a fill line
EdgePointWritten(n, edge, k) ==
    \E e \in WalkEvents(n) :
       LET ev == run.events[e]
       IN \/ ev.kind = "point" /\ ev.edge = edge
             /\ (IF edge = 1 THEN ev.i ELSE ev.j) = k
          \/ ev.kind = "fill" /\ (IF edge = 1 THEN ev.i ELSE ev.j) = k

\* C17: in the walk of drawTriangle every fill line drawLine(line1[i],
\* line2[j]) joins two points of the same y, the walk ends with both indexes
\* at the end of their lists at the same time, and every point of both edge
\* lists has been written, by drawPoint or as an endpoint of a fill line.
C17_WalkCoversBothEdges ==
    triRet.called =>
       /\ \A k \in Fills : Y(run.events[k].a) = Y(run.events[k].b)
       /\ Len(run.ends) = Len(run.edges)
       /\ \A n \in 1 .. Len(run.edges) :
             LET ed == run.edges[n]
                 end == run.ends[n]
             IN /\ end.call = ed.call
                /\ end.i = Len(ed.line1) + 1
                /\ end.j = Len(ed.line2) + 1
                /\ \A k \in 1 .. Len(ed.line1) : EdgePointWritten(n, 1, k)
                /\ \A k \in 1 .. Len(ed.line2) : EdgePointWritten(n, 2, k)

\* a walk that plotted points of both edges and drew several fill lines
C17_Witness ==
    /\ triRet.called /\ triRet.raised = ""
    /\ \E n \in 1 .. Len(run.edges) :
          /\ \E e \in WalkEvents(n) :
                run.events[e].kind = "point" /\ run.events[e].edge = 1
          /\ \E e \in WalkEvents(n) :
                run.events[e].kind = "point" /\ run.events[e].edge = 2
          /\ Cardinality({e \in WalkEvents(n) : run.events[e].kind = "fill"}) > 2
          /\ run.ends[n].i = Len(run.edges[n].line1) + 1

(***************************************************************************)
(* Properties of a line and a triangle drawn in turn (specification        *)
(* SpecPaint).                                                             *)
(***************************************************************************)
\* the coordinate c lies inside the axis-aligned bounding box of the
\* coordinates in corners
InBox(c, corners) ==
    \A axis \in {1, 2} :
       \E lo \in corners, hi \in corners : lo[axis] <= c[axis] /\ c[axis] <= hi[axis]

WritesInBox(writes, corners) ==
    \A k \in 1 .. Len(writes) :
       InBox(writes[k].coords, corners) /\ writes[k].coords \in Coords

\* C18: every pixel drawLine writes lies inside the bounding box of its two
\* endpoints and every pixel drawTriangle writes, sub-calls and split point
\* included, lies inside the bounding box of its three vertices; with the
\* vertices inside the framebuffer no write is out of bounds.
C18_WritesInsideBoundingBox ==
    /\ drawRet.called =>
          WritesInBox(drawRet.writes, {args[1].coords, args[2].coords})
    /\ triRet.called =>
          WritesInBox(run.writes, {given[n].coords : n \in 1 .. 3})

\* a sloped line and a split triangle were drawn, the triangle not
\* spanning the whole framebuffer
C18_Witness ==
    /\ drawRet.called /\ Len(drawRet.writes) > 2
    /\ triRet.called /\ triRet.raised = ""
    /\ given[1].coords[2] /= given[2].coords[2]
    /\ Len(run.calls) >= 3
    /\ Len(run.writes) > 6
    /\ \E c \in Coords : ~InBox(c, {given[n].coords : n \in 1 .. 3})

(***************************************************************************)
(* Properties of the mouse handlers (specification SpecClicks).            *)
(***************************************************************************)
\* the last n elements of a list
Latest(list, n) == SubSeq(list, Len(list) - n + 1, Len(list))

\* C16: in any interleaving of left and right clicks from empty lists,
\* points_r never holds more than 2 points and points_l never more than 1
\* between events; right click number k draws a line between the two
\* latest right-click points when k mod 3 = 2 and one triangle from the
\* three latest, emptying points_r, when k mod 3 = 0; every second left
\* click draws one line and empties points_l; a click of one button never
\* changes the list of the other.
C16_ClickLists ==
    /\ Len(points_r) <= 2
    /\ Len(points_l) <= 1
    /\ click.button = "R" =>
          /\ points_l = click.before_l
          /\ click.n_r % 3 = 1 => (click.drew = "")
          /\ click.n_r % 3 = 2 =>
                /\ click.drew = "line"
                /\ click.from = Latest(points_r, 2)
          /\ click.n_r % 3 = 0 =>
                /\ click.drew = "triangle"
                /\ Len(click.from) = 3
                /\ SubSeq(click.from, 1, 2) = Latest(click.before_r, 2)
                /\ points_r = <<>>
    /\ click.button = "L" =>
          /\ points_r = click.before_r
          /\ click.n_l % 2 = 1 => (click.drew = "" /\ Len(points_l) = 1)
          /\ click.n_l % 2 = 0 =>
                /\ click.drew = "line"
                /\ click.from[2] = click.before_l[Len(click.before_l)]
                /\ points_l = <<>>

====
